---- MODULE Spec2Model ----
(***************************************************************************)
(* Order matching engine of src/order_book.py: the OrderBook (two heaps    *)
(* and the pending stop-limit list), the PositionManager ledger kept in    *)
(* the key-value store, the snapshot keys, and the ingestion handler       *)
(* process_message.                                                        *)
(*                                                                         *)
(* Python objects are handled by reference: a heap entry holds the very    *)
(* Order object the caller created, so objs maps references to objects and *)
(* the heaps hold references.  A reference is <<"sub", n>> for the n-th    *)
(* Order built by process_message (its order_id is n) and <<"load", id>>   *)
(* for an Order rebuilt by load_state_from_redis.                          *)
(***************************************************************************)
EXTENDS Integers, Sequences, FiniteSets, TLC

VARIABLES
    bids,               \* OrderBook.bids: heap of (-price, order_id, order)
    asks,               \* OrderBook.asks: heap of (price, order_id, order)
    stop_limit_orders,  \* OrderBook.stop_limit_orders
    objs,               \* the Order objects, by reference
    positions,          \* store keys user:{user_id}:asset:asset_1
    store,              \* store keys order_book:bids and order_book:asks
    intent,             \* per order of LimitSpec: the side meant, the quantity sent
    call                \* the last operation and how it ended

vars == <<bids, asks, stop_limit_orders, objs, positions, store, intent, call>>

----------------------------------------------------------------------------
(* Bounds and input alphabets *)

MaxOrders == 2

MaxLimitOrders == 3

Users == {"u1", "u2"}

Prices == {99, 100}

Quantities == {2, 5}

Sides == {"buy", "sell"}

OrderTypes == {"limit", "market", "stop_limit", "buy"}

----------------------------------------------------------------------------
(* Program constants *)

None == 0

position_limit == 100

Keys ==
    {"order_id", "price", "quantity", "order_type", "user_id",
     "stop_loss_price", "stop_price", "limit_price"}

RequiredKeys == {"order_id", "price", "quantity", "order_type", "user_id"}

----------------------------------------------------------------------------
(* Order objects *)

Order(order_id, price, quantity, order_type, user_id, stop_loss_price, stop_price, limit_price) ==
    [order_id |-> order_id, price |-> price, quantity |-> quantity,
     order_type |-> order_type, user_id |-> user_id,
     stop_loss_price |-> stop_loss_price, stop_price |-> stop_price,
     limit_price |-> limit_price]

MinSwapped(a, b) == IF a <= b THEN b ELSE a

Min(a, b) == IF a <= b THEN a ELSE b

(* heapq orders the entries as tuples: first component, then order_id. *)
(* Two entries never tie on both because order ids are unique in a heap. *)
EntryLess(x, y) == x[1] < y[1] \/ (x[1] = y[1] /\ x[2] < y[2])

(* A heap is kept as the sequence in which heappop would return it. *)
RECURSIVE heappush(_, _)
heappush(heap, item) ==
    IF heap = <<>> THEN <<item>>
    ELSE IF EntryLess(item, Head(heap)) THEN <<item>> \o heap
    ELSE <<Head(heap)>> \o heappush(Tail(heap), item)

BidEntry(o, ref) == <<0 - o.price, o.order_id, ref>>

AskEntry(o, ref) == <<o.price, o.order_id, ref>>

----------------------------------------------------------------------------
(* PositionManager *)

get_user_position(pos, user_id) ==
    IF user_id \in DOMAIN pos THEN pos[user_id] ELSE 0

update_user_position(pos, user_id, quantity_change) ==
    [u \in (DOMAIN pos) \cup {user_id} |->
        IF u = user_id
        THEN get_user_position(pos, user_id) + quantity_change
        ELSE pos[u]]

check_position_limit(pos, user_id, quantity_change) ==
    get_user_position(pos, user_id) + quantity_change <= position_limit

----------------------------------------------------------------------------
(* OrderBook.  S is the engine state a handler works on:                   *)
(* bids, asks, stop_limit_orders, objs, positions, store, plus fills (the  *)
(* fills made so far in this call), ret (add_order's return value) and exc *)
(* (the exception in flight, "" when none).                                *)

Fill(against, taker, maker, taker_dec, maker_dec, taker_user, taker_change, maker_user, maker_change) ==
    [against |-> against, taker |-> taker, maker |-> maker,
     taker_dec |-> taker_dec, maker_dec |-> maker_dec,
     taker_user |-> taker_user, taker_change |-> taker_change,
     maker_user |-> maker_user, maker_change |-> maker_change]

(* FillAgainstAsk without the second ledger update. *)
FillAgainstAskUnpaired(S, ref) ==
    LET order == S.objs[ref]
        aref == Head(S.asks)[3]
        ask_order == S.objs[aref]
        fill_quantity == Min(order.quantity, ask_order.quantity)
        objs1 == [S.objs EXCEPT ![ref].quantity = @ - fill_quantity,
                                ![aref].quantity = @ - fill_quantity]
        pos1 == update_user_position(S.positions, order.user_id, 0 - fill_quantity)
        popped == Tail(S.asks)
    IN  [S EXCEPT
            !.objs = objs1,
            !.positions = pos1,
            !.asks = IF objs1[aref].quantity > 0
                     THEN heappush(popped, AskEntry(objs1[aref], aref))
                     ELSE popped,
            !.fills = Append(@, Fill("asks", ref, aref,
                        order.quantity - objs1[ref].quantity,
                        ask_order.quantity - objs1[aref].quantity,
                        order.user_id, 0 - fill_quantity,
                        ask_order.user_id, fill_quantity))]

(* One pass of the branch that consumes the best ask. *)
FillAgainstAsk(S, ref) ==
    LET order == S.objs[ref]
        aref == Head(S.asks)[3]
        ask_order == S.objs[aref]
        fill_quantity == Min(order.quantity, ask_order.quantity)
        objs1 == [S.objs EXCEPT ![ref].quantity = @ - fill_quantity,
                                ![aref].quantity = @ - fill_quantity]
        pos1 == update_user_position(S.positions, order.user_id, 0 - fill_quantity)
        pos2 == update_user_position(pos1, ask_order.user_id, fill_quantity)
        popped == Tail(S.asks)
    IN  [S EXCEPT
            !.objs = objs1,
            !.positions = pos2,
            !.asks = IF objs1[aref].quantity > 0
                     THEN heappush(popped, AskEntry(objs1[aref], aref))
                     ELSE popped,
            !.fills = Append(@, Fill("asks", ref, aref,
                        order.quantity - objs1[ref].quantity,
                        ask_order.quantity - objs1[aref].quantity,
                        order.user_id, 0 - fill_quantity,
                        ask_order.user_id, fill_quantity))]

(* FillAgainstBid that never puts the bid back. *)
FillAgainstBidDropped(S, ref) ==
    LET order == S.objs[ref]
        bref == Head(S.bids)[3]
        bid_order == S.objs[bref]
        fill_quantity == Min(order.quantity, bid_order.quantity)
        objs1 == [S.objs EXCEPT ![ref].quantity = @ - fill_quantity,
                                ![bref].quantity = @ - fill_quantity]
        pos1 == update_user_position(S.positions, order.user_id, fill_quantity)
        pos2 == update_user_position(pos1, bid_order.user_id, 0 - fill_quantity)
    IN  [S EXCEPT
            !.objs = objs1,
            !.positions = pos2,
            !.bids = Tail(S.bids),
            !.fills = Append(@, Fill("bids", ref, bref,
                        order.quantity - objs1[ref].quantity,
                        bid_order.quantity - objs1[bref].quantity,
                        order.user_id, fill_quantity,
                        bid_order.user_id, 0 - fill_quantity))]

(* One pass of the branch that consumes the best bid. *)
FillAgainstBid(S, ref) ==
    LET order == S.objs[ref]
        bref == Head(S.bids)[3]
        bid_order == S.objs[bref]
        fill_quantity == Min(order.quantity, bid_order.quantity)
        objs1 == [S.objs EXCEPT ![ref].quantity = @ - fill_quantity,
                                ![bref].quantity = @ - fill_quantity]
        pos1 == update_user_position(S.positions, order.user_id, fill_quantity)
        pos2 == update_user_position(pos1, bid_order.user_id, 0 - fill_quantity)
        popped == Tail(S.bids)
    IN  [S EXCEPT
            !.objs = objs1,
            !.positions = pos2,
            !.bids = IF objs1[bref].quantity > 0
                     THEN heappush(popped, BidEntry(objs1[bref], bref))
                     ELSE popped,
            !.fills = Append(@, Fill("bids", ref, bref,
                        order.quantity - objs1[ref].quantity,
                        bid_order.quantity - objs1[bref].quantity,
                        order.user_id, fill_quantity,
                        bid_order.user_id, 0 - fill_quantity))]

RECURSIVE match_market_order(_, _)
match_market_order(S, ref) ==
    IF S.objs[ref].quantity <= 0 THEN S
    ELSE IF S.bids = <<>> /\ S.asks = <<>> THEN S
    ELSE IF S.asks # <<>> THEN match_market_order(FillAgainstAsk(S, ref), ref)
    ELSE match_market_order(FillAgainstBid(S, ref), ref)

(* add_stop_limit_order that also rests the order among the asks. *)
add_stop_limit_order_resting(S, ref) ==
    [S EXCEPT !.stop_limit_orders = Append(@, ref),
              !.asks = heappush(@, AskEntry(S.objs[ref], ref))]

add_stop_limit_order(S, ref) ==
    [S EXCEPT !.stop_limit_orders = Append(@, ref)]

(* Line 168 calls self.get_best_ask() when asks is non-empty and           *)
(* self.get_best_bid() otherwise.  Both are methods of class Order (lines  *)
(* 23-33); OrderBook (lines 64-297) defines neither, so the lookup raises  *)
(* AttributeError on every call and lines 169-222 (the stop-trigger scan   *)
(* and the crossing loop) never run.                                       *)
match_orders(S) ==
    [S EXCEPT !.exc = "AttributeError"]

QuantityChange(order) ==
    IF order.order_type = "buy" THEN order.quantity ELSE 0 - order.quantity

Insert(S, ref) ==
    LET order == S.objs[ref] IN
    IF order.order_type = "limit" THEN
        IF order.order_type = "buy"
        THEN [S EXCEPT !.bids = heappush(@, BidEntry(order, ref))]
        ELSE [S EXCEPT !.asks = heappush(@, AskEntry(order, ref))]
    ELSE IF order.order_type = "market" THEN match_market_order(S, ref)
    ELSE IF order.order_type = "stop_limit" THEN add_stop_limit_order(S, ref)
    ELSE S

(* add_order with the limit check made after the insertion. *)
add_order_check_late(S, ref) ==
    LET order == S.objs[ref]
        S1 == Insert(S, ref)
    IN  IF ~check_position_limit(S.positions, order.user_id, QuantityChange(order))
        THEN [S1 EXCEPT !.ret = "False"]
        ELSE LET S2 == match_orders(S1)
             IN  IF S2.exc # "" THEN S2 ELSE [S2 EXCEPT !.ret = "True"]

add_order(S, ref) ==
    LET order == S.objs[ref] IN
    IF ~check_position_limit(S.positions, order.user_id, QuantityChange(order))
    THEN [S EXCEPT !.ret = "False"]
    ELSE LET S2 == match_orders(Insert(S, ref))
         IN  IF S2.exc # "" THEN S2 ELSE [S2 EXCEPT !.ret = "True"]

----------------------------------------------------------------------------
(* Snapshot: the two store keys hold a JSON array of dicts, one per heap   *)
(* entry in the heap's order; an unset key reads as absent.                *)

ToDict(order) ==
    [order_id |-> order.order_id, price |-> order.price,
     quantity |-> order.quantity, order_type |-> order.order_type,
     user_id |-> order.user_id, stop_loss_price |-> order.stop_loss_price,
     stop_price |-> order.stop_price, limit_price |-> order.limit_price]

FromDictQuantityLost(data) ==
    Order(data.order_id, data.price, data.price, data.order_type,
          data.user_id, data.stop_loss_price, data.stop_price, data.limit_price)

(* FromDict reading the quantity under a key the dict does not have. *)
FromDictQuantityZero(data) ==
    Order(data.order_id, data.price, 0, data.order_type,
          data.user_id, data.stop_loss_price, data.stop_price, data.limit_price)

FromDict(data) ==
    Order(data.order_id, data.price, data.quantity, data.order_type,
          data.user_id, data.stop_loss_price, data.stop_price, data.limit_price)

Dump(S, heap) ==
    [present |-> TRUE,
     data |-> [i \in 1..Len(heap) |-> ToDict(S.objs[heap[i][3]])]]

save_state_to_redis(S) ==
    [S EXCEPT !.store = [bids |-> Dump(S, S.bids), asks |-> Dump(S, S.asks)]]

LoadRef(data) == <<"load", data.order_id>>

(* The objects a list of dicts is rebuilt into, added to objs. *)
Rebuilt(objects, datas) ==
    LET new == {LoadRef(datas[i]) : i \in 1..Len(datas)} IN
    [r \in (DOMAIN objects) \cup new |->
        IF r \in new
        THEN FromDict(CHOOSE d \in {datas[i] : i \in 1..Len(datas)} : LoadRef(d) = r)
        ELSE objects[r]]

RECURSIVE PushBids(_, _)
PushBids(heap, datas) ==
    IF datas = <<>> THEN heap
    ELSE PushBids(heappush(heap, BidEntry(FromDict(Head(datas)), LoadRef(Head(datas)))),
                  Tail(datas))

RECURSIVE PushAsks(_, _)
PushAsks(heap, datas) ==
    IF datas = <<>> THEN heap
    ELSE PushAsks(heappush(heap, AskEntry(FromDict(Head(datas)), LoadRef(Head(datas)))),
                  Tail(datas))

load_state_from_redis(S) ==
    LET S1 == IF S.store.bids.present
              THEN [S EXCEPT !.bids = PushBids(<<>>, S.store.bids.data),
                             !.objs = Rebuilt(@, S.store.bids.data)]
              ELSE S
    IN  IF S1.store.asks.present
        THEN [S1 EXCEPT !.asks = PushAsks(<<>>, S1.store.asks.data),
                        !.objs = Rebuilt(@, S1.store.asks.data)]
        ELSE S1

----------------------------------------------------------------------------
(* Ingestion *)

(* A message: whether json.loads accepts it, the keys of the decoded dict  *)
(* and their values.  The source numbers the orders, so order_id is not    *)
(* part of the choice.                                                     *)
Message(keys, order_type, price, quantity, user_id, stop_price, limit_price) ==
    [parses |-> TRUE, keys |-> keys, order_type |-> order_type, price |-> price,
     quantity |-> quantity, user_id |-> user_id, stop_price |-> stop_price,
     limit_price |-> limit_price]

(* The engine once lines 346-355 have built the Order of a message. *)
BuildOrder(S, msg, order_id) ==
    LET order == Order(order_id, msg.price, msg.quantity, msg.order_type,
                       msg.user_id, None,
                       IF "stop_price" \in msg.keys THEN msg.stop_price ELSE None,
                       IF "limit_price" \in msg.keys THEN msg.limit_price ELSE None)
        ref == <<"sub", order_id>>
    IN  [S EXCEPT !.objs = [r \in (DOMAIN S.objs) \cup {ref} |->
                              IF r = ref THEN order ELSE S.objs[r]]]

process_message(S, msg, order_id) ==
    IF ~msg.parses THEN [S EXCEPT !.exc = "JSONDecodeError"]
    ELSE IF ~(RequiredKeys \subseteq msg.keys) THEN [S EXCEPT !.exc = "KeyError"]
    ELSE
        LET S2 == add_order(BuildOrder(S, msg, order_id), <<"sub", order_id>>)
        IN  IF S2.exc = "" /\ S2.ret = "True"
            THEN [save_state_to_redis(S2) EXCEPT !.saved = TRUE]
            ELSE S2

----------------------------------------------------------------------------
(* Inputs *)

Unparsable ==
    [parses |-> FALSE, keys |-> {}, order_type |-> "", price |-> None,
     quantity |-> None, user_id |-> "", stop_price |-> None, limit_price |-> None]

LimitMessages ==
    {Message(RequiredKeys, "limit", p, q, u, None, None) :
        p \in Prices, q \in Quantities, u \in Users}

MarketMessages ==
    {Message(RequiredKeys, "market", None, q, u, None, None) :
        q \in Quantities, u \in Users}

StopLimitMessages ==
    {Message(RequiredKeys \cup {"stop_price", "limit_price"}, "stop_limit", 100, q, u, 100, 100) :
        q \in Quantities, u \in Users}

(* A stop_limit message without its stop_price key. *)
StopPriceMissing ==
    {[m EXCEPT !.keys = @ \ {"stop_price"}] :
        m \in {Message(RequiredKeys \cup {"stop_price", "limit_price"},
                       "stop_limit", 100, 2, "u1", 100, 100)}}

(* order_type "buy" is the value lines 79 and 84 compare with. *)
BuyTypeMessages ==
    {Message(RequiredKeys, "buy", 100, q, u, None, None) :
        q \in Quantities, u \in Users}

OrderMessages ==
    LimitMessages \cup MarketMessages \cup StopLimitMessages \cup StopPriceMissing
        \cup BuyTypeMessages

(* A dict without one of the keys process_message subscripts. *)
KeyErrorMessages ==
    {[m EXCEPT !.keys = @ \ {k}] :
        k \in RequiredKeys, m \in {Message(RequiredKeys, "limit", 100, 5, "u1", None, None)}}

Messages == OrderMessages \cup KeyErrorMessages \cup {Unparsable}

(* What an earlier writer left in the store: a snapshot with one resting   *)
(* bid and one resting ask, not crossed, and user u1 holding the limit.    *)
StoredBid == Order(1, 99, 5, "limit", "u2", None, None, None)

StoredAsk == Order(2, 100, 3, "limit", "u1", None, None, None)

InitialStore ==
    [bids |-> [present |-> TRUE, data |-> <<ToDict(StoredBid)>>],
     asks |-> [present |-> TRUE, data |-> <<ToDict(StoredAsk)>>]]

InitialPositions == [u \in {"u1"} |-> position_limit]

----------------------------------------------------------------------------
(* State machine *)

Engine ==
    [bids |-> bids, asks |-> asks, stop_limit_orders |-> stop_limit_orders,
     objs |-> objs, positions |-> positions, store |-> store,
     fills |-> <<>>, ret |-> "None", exc |-> "", saved |-> FALSE]

Refs(heap) == {heap[i][3] : i \in 1..Len(heap)}

(* Objects only the book referred to are gone once the book drops them. *)
Live(S) ==
    {r \in DOMAIN S.objs : r[1] = "sub" \/ r \in Refs(S.bids) \cup Refs(S.asks)}

Becomes(S) ==
    /\ bids' = S.bids
    /\ asks' = S.asks
    /\ stop_limit_orders' = S.stop_limit_orders
    /\ objs' = [r \in Live(S) |-> S.objs[r]]
    /\ positions' = S.positions
    /\ store' = S.store

Outcome(S) == IF S.exc # "" THEN S.exc ELSE S.ret

Init ==
    /\ bids = <<>>
    /\ asks = <<>>
    /\ stop_limit_orders = <<>>
    /\ objs = [r \in {} |-> None]
    /\ positions = InitialPositions
    /\ store = InitialStore
    /\ intent = <<>>
    /\ call = [op |-> "__init__", outcome |-> "None", order |-> 0,
               fills |-> <<>>, saved |-> FALSE]

Creates(msg) == msg.parses /\ RequiredKeys \subseteq msg.keys

(* Orders built so far; the source numbers them after the stored ones. *)
Submitted == Cardinality({r \in DOMAIN objs : r[1] = "sub"})

NextOrderId ==
    Len(InitialStore.bids.data) + Len(InitialStore.asks.data) + Submitted + 1

Deliver(msg, max) ==
    LET S == process_message(Engine, msg, NextOrderId)
    IN  /\ Creates(msg) => Submitted < max
        /\ Becomes(S)
        /\ call' = [op |-> "process_message", outcome |-> Outcome(S),
                    order |-> IF Creates(msg) THEN NextOrderId ELSE 0,
                    fills |-> S.fills, saved |-> S.saved]

ProcessMessage ==
    /\ \E msg \in Messages : Deliver(msg, MaxOrders)
    /\ intent' = intent

SaveState ==
    /\ Becomes(save_state_to_redis(Engine))
    /\ intent' = intent
    /\ call' = [op |-> "save_state_to_redis", outcome |-> "None", order |-> 0,
                fills |-> <<>>, saved |-> TRUE]

LoadState ==
    /\ Becomes(load_state_from_redis(Engine))
    /\ intent' = intent
    /\ call' = [op |-> "load_state_from_redis", outcome |-> "None", order |-> 0,
                fills |-> <<>>, saved |-> FALSE]

Next == ProcessMessage \/ SaveState \/ LoadState

Spec == Init /\ [][Next]_vars

(* The same engine fed limit orders only, with the side each submitter    *)
(* meant written down: class Order has no field for it.                    *)
SubmitLimit ==
    \E msg \in LimitMessages, side \in Sides :
        /\ Deliver(msg, MaxLimitOrders)
        /\ intent' = Append(intent, [side |-> side, quantity |-> msg.quantity])

LimitNext == SubmitLimit

LimitSpec == Init /\ [][LimitNext]_vars

(* Process start, lines 319-335.  up tells whether the store answers.      *)
(* Line 320 calls load_state_from_redis outside any try: with the store    *)
(* down, redis_client.get raises ConnectionError and the script ends.      *)
load_at_start(S, up) ==
    IF up THEN load_state_from_redis(S) ELSE [S EXCEPT !.exc = "ConnectionError"]

(* ping raises ConnectionError with the store down; line 331 catches it    *)
(* and logs, and the book stays as it was.                                 *)
initialize_order_book(S, up) ==
    IF up THEN load_state_from_redis(S) ELSE S

(* The statements between the construction of order_book and the           *)
(* subscription of line 369; the listening loop of lines 369-376 starts    *)
(* only when they end without an exception.                                *)
start(S, up) ==
    LET S1 == load_at_start(S, up)
        S2 == IF S1.exc # "" THEN S1 ELSE match_orders(S1)
    IN  IF S2.exc # "" THEN S2 ELSE initialize_order_book(S2, up)

(* The snapshots a store can hold under one key when the process starts:   *)
(* nothing, an empty list, or one resting order.                           *)
StartSnapshots(order_id) ==
    {[present |-> FALSE, data |-> <<>>], [present |-> TRUE, data |-> <<>>]}
        \cup {[present |-> TRUE,
               data |-> <<ToDict(Order(order_id, p, q, "limit", u, None, None, None))>>] :
                 p \in Prices, q \in Quantities, u \in Users}

StartInit ==
    /\ bids = <<>>
    /\ asks = <<>>
    /\ stop_limit_orders = <<>>
    /\ objs = [r \in {} |-> None]
    /\ positions = InitialPositions
    /\ store \in [bids : StartSnapshots(StoredBid.order_id),
                  asks : StartSnapshots(StoredAsk.order_id)]
    /\ intent = <<>>
    /\ call = [op |-> "__init__", outcome |-> "None", order |-> 0,
               fills |-> <<>>, saved |-> FALSE]

Starts(up) ==
    /\ call.op = "__init__"
    /\ Becomes(start(Engine, up))
    /\ intent' = intent
    /\ call' = [op |-> "__main__", outcome |-> Outcome(start(Engine, up)),
                order |-> 0, fills |-> <<>>, saved |-> FALSE]

StartUp == \E up \in BOOLEAN : Starts(up)

StartNext == StartUp

StartSpec == StartInit /\ [][StartNext]_vars

----------------------------------------------------------------------------
(* Views used by the properties *)

SideOrders(heap, objects) == [i \in 1..Len(heap) |-> objects[heap[i][3]]]

BidSide == SideOrders(bids, objs)

AskSide == SideOrders(asks, objs)

PendingStops == [i \in 1..Len(stop_limit_orders) |-> objs[stop_limit_orders[i]]]

BestBid == 0 - Head(bids)[1]

BestAsk == Head(asks)[1]

Exceptions == {"AttributeError", "JSONDecodeError", "KeyError"}

SubRef(i) ==
    <<"sub", Len(InitialStore.bids.data) + Len(InitialStore.asks.data) + i>>

RECURSIVE SumOver(_, _)
SumOver(pos, users) ==
    IF users = {} THEN 0
    ELSE LET u == CHOOSE x \in users : TRUE
         IN  pos[u] + SumOver(pos, users \ {u})

TotalPosition(pos) == SumOver(pos, DOMAIN pos)

(* The multiset of (order_id, price, quantity, side) of a book, as the     *)
(* number of times each tuple occurs.                                      *)
Items(b, a) ==
    [i \in 1..(Len(b) + Len(a)) |->
        IF i <= Len(b)
        THEN <<b[i].order_id, b[i].price, b[i].quantity, "bid">>
        ELSE <<a[i - Len(b)].order_id, a[i - Len(b)].price,
               a[i - Len(b)].quantity, "ask">>]

Count(seq, x) == Cardinality({i \in DOMAIN seq : seq[i] = x})

SameMultiset(s, t) ==
    /\ Len(s) = Len(t)
    /\ \A i \in DOMAIN s : Count(s, s[i]) = Count(t, s[i])

BookItems == Items(BidSide, AskSide)

----------------------------------------------------------------------------
(* Properties *)

Delivered == call.op = "process_message" /\ call.order # 0

OrderOf(c) == <<"sub", c.order>>

(* Scenario A under LimitSpec: from the empty book, a buy limit order and  *)
(* then a sell limit order of another user at the same price and quantity, *)
(* the buy within the buyer's position limit.                              *)
ScenarioA ==
    /\ Len(intent) = 2
    /\ intent[1].side = "buy"
    /\ intent[2].side = "sell"
    /\ intent[1].quantity = intent[2].quantity
    /\ objs[SubRef(1)].price = objs[SubRef(2)].price
    /\ objs[SubRef(1)].user_id # objs[SubRef(2)].user_id
    /\ get_user_position(InitialPositions, objs[SubRef(1)].user_id)
          + intent[1].quantity <= position_limit

(* C1: after a buy limit order (p, q, u1) and a sell limit order           *)
(* (p, q, u2) on an empty book, both orders have quantity 0, u1's position *)
(* is up by q, u2's is down by q, and both sides of the book are empty.    *)
C1_BuyThenSellMatch ==
    ScenarioA =>
        LET buy == objs[SubRef(1)]
            sell == objs[SubRef(2)]
            q == intent[1].quantity
        IN  /\ buy.quantity = 0
            /\ sell.quantity = 0
            /\ get_user_position(positions, buy.user_id)
                  = get_user_position(InitialPositions, buy.user_id) + q
            /\ get_user_position(positions, sell.user_id)
                  = get_user_position(InitialPositions, sell.user_id) - q
            /\ bids = <<>>
            /\ asks = <<>>

(* C2: once add_order has returned, a book with both sides non-empty has   *)
(* its best bid strictly below its best ask.                               *)
C2_NoCrossedBook ==
    (Delivered /\ call.outcome \in {"True", "False"} /\ bids # <<>> /\ asks # <<>>)
        => BestBid < BestAsk

(* C3: with delta = +quantity for a buy and -quantity for a sell,          *)
(* add_order returns False when position + delta exceeds the limit and     *)
(* returns True in every other case.                                       *)
C3_Admission ==
    [][(call'.op = "process_message" /\ Len(intent') = Len(intent) + 1) =>
        LET i == Len(intent')
            order == objs'[SubRef(i)]
            delta == IF intent'[i].side = "buy"
                     THEN intent'[i].quantity ELSE 0 - intent'[i].quantity
        IN  IF get_user_position(positions, order.user_id) + delta > position_limit
            THEN call'.outcome = "False"
            ELSE call'.outcome = "True"]_vars

(* C4: an order add_order rejects leaves the bid side, the ask side, the   *)
(* pending stop orders and every ledger position as they were.             *)
C4_RejectionChangesNothing ==
    [][(call'.op = "process_message" /\ call'.order # 0 /\ call'.outcome = "False") =>
        /\ BidSide' = BidSide
        /\ AskSide' = AskSide
        /\ PendingStops' = PendingStops
        /\ positions' = positions]_vars

(* A limit order has just been rejected while the book holds a bid and an  *)
(* ask.                                                                    *)
C4_Witness ==
    /\ Delivered
    /\ call.outcome = "False"
    /\ objs[OrderOf(call)].order_type = "limit"
    /\ bids # <<>>
    /\ asks # <<>>

(* C5: every fill takes the same quantity off both orders and applies      *)
(* opposite ledger changes to the two users, and no process_message call   *)
(* changes the sum of all positions.                                       *)
C5_Conservation ==
    [][/\ \A i \in DOMAIN call'.fills :
            /\ call'.fills[i].taker_dec = call'.fills[i].maker_dec
            /\ call'.fills[i].taker_change = 0 - call'.fills[i].maker_change
       /\ call'.op = "process_message" =>
            TotalPosition(positions') = TotalPosition(positions)]_vars

(* A market order has just been filled against two resting orders. *)
C5_Witness ==
    /\ Delivered
    /\ Len(call.fills) >= 2
    /\ \E i \in DOMAIN call.fills : call.fills[i].taker_user # call.fills[i].maker_user

(* C6: orders are submitted with quantity > 0, and every order object,     *)
(* resting, pending or just matched, has quantity >= 0.                    *)
C6_NoNegativeQuantity ==
    \A r \in DOMAIN objs : objs[r].quantity >= 0

(* A market order has just been filled in part, using up a resting order. *)
C6_Witness ==
    /\ Delivered
    /\ call.fills # <<>>
    /\ objs[OrderOf(call)].quantity > 0
    /\ \E i \in DOMAIN call.fills : call.fills[i].maker \notin DOMAIN objs \/
                                    objs[call.fills[i].maker].quantity = 0

(* Scenario B under LimitSpec: two buy limit orders at one price, then a   *)
(* sell limit order at that price for more than the first and less than    *)
(* both, the buys within their users' position limits.                     *)
ScenarioB ==
    /\ Len(intent) = 3
    /\ intent[1].side = "buy"
    /\ intent[2].side = "buy"
    /\ intent[3].side = "sell"
    /\ objs[SubRef(1)].price = objs[SubRef(2)].price
    /\ objs[SubRef(2)].price = objs[SubRef(3)].price
    /\ intent[1].quantity < intent[3].quantity
    /\ intent[3].quantity < intent[1].quantity + intent[2].quantity
    /\ \A i \in {1, 2} :
          get_user_position(InitialPositions, objs[SubRef(i)].user_id)
              + intent[1].quantity + intent[2].quantity <= position_limit

C8_SnapshotRoundTrip ==
    [][(/\ call.op = "save_state_to_redis"
        /\ call'.op = "load_state_from_redis"
        /\ Len(BookItems) > 0)
        => SameMultiset(BookItems', BookItems)]_vars

(* A load has just rebuilt, from a snapshot this engine saved, a book with  *)
(* a bid, a partly filled ask and an ask submitted since start.            *)
C8_Witness ==
    /\ call.op = "load_state_from_redis"
    /\ bids # <<>>
    /\ Len(asks) >= 2
    /\ \E i \in DOMAIN AskSide :
          AskSide[i].order_id = StoredAsk.order_id /\ AskSide[i].quantity < StoredAsk.quantity
    /\ \E i \in DOMAIN store.asks.data : store.asks.data[i].order_id > StoredAsk.order_id
    /\ SameMultiset(BookItems, Items(store.bids.data, store.asks.data))

(* C9: a market order submitted to a book with both sides empty keeps its  *)
(* quantity, trades nothing, changes no position, leaves the book empty,   *)
(* and the call ends without a failure.                                    *)
C9_MarketOnEmptyBook ==
    [][\A msg \in MarketMessages :
        (bids = <<>> /\ asks = <<>> /\ Deliver(msg, MaxOrders)) =>
            /\ objs'[OrderOf(call')].quantity = msg.quantity
            /\ call'.fills = <<>>
            /\ positions' = positions
            /\ bids' = <<>>
            /\ asks' = <<>>
            /\ call'.outcome \notin Exceptions]_vars

(* The keys section 6 of the specification requires of a message. *)
SpecRequiredKeys(msg) ==
    {"order_id", "quantity", "order_type", "user_id"}
        \cup (IF msg.order_type \in {"limit", "stop_limit"} THEN {"price"} ELSE {})
        \cup (IF msg.order_type = "stop_limit" THEN {"stop_price", "limit_price"} ELSE {})

Malformed(msg) == ~msg.parses \/ ~(SpecRequiredKeys(msg) \subseteq msg.keys)

(* C10: a message that does not parse or lacks a required key leaves the   *)
(* bid side, the ask side, the pending stop orders, the ledger and the     *)
(* stored snapshot unchanged.                                              *)
C10_MalformedDropped ==
    [][\A msg \in Messages :
        (Malformed(msg) /\ Deliver(msg, MaxOrders)) =>
            /\ BidSide' = BidSide
            /\ AskSide' = AskSide
            /\ PendingStops' = PendingStops
            /\ positions' = positions
            /\ store' = store]_vars

(* C11: a process started while the store cannot be reached gets past its  *)
(* start without an exception, so that it goes on to listen for messages,  *)
(* and does so with both sides of the book empty.                          *)
C11_StartWithoutStore ==
    [][Starts(FALSE) =>
        /\ call'.outcome = "None"
        /\ bids' = <<>>
        /\ asks' = <<>>]_vars

(* The order of a message passes the position check of add_order. *)
Admitted(msg) ==
    /\ Creates(msg)
    /\ check_position_limit(positions, msg.user_id, QuantityChange(msg))

(* C12: process_message writes a snapshot only after add_order has         *)
(* reported acceptance; every order add_order admits is followed, within   *)
(* the same call, by a snapshot holding the book as the order left it; a   *)
(* rejected order and a message whose processing failed before add_order   *)
(* leave the store as it was.                                              *)
C12_SnapshotOrdering ==
    [][\A msg \in Messages :
        Deliver(msg, MaxOrders) =>
            /\ call'.saved => call'.outcome = "True"
            /\ Admitted(msg) =>
                  /\ call'.saved
                  /\ SameMultiset(BookItems', Items(store'.bids.data, store'.asks.data))
            /\ ~Admitted(msg) => store' = store]_vars

(* A limit order at this price meant for this side would trade with the    *)
(* best order of the other side.                                           *)
Crosses(price, side) ==
    IF side = "buy" THEN asks # <<>> /\ price >= BestAsk
    ELSE bids # <<>> /\ price <= BestBid

(* C13: under LimitSpec, a limit order that is not rejected and does not   *)
(* cross rests, once the call is over, on the side its submitter meant, a  *)
(* buy among the bids and not the asks, a sell among the asks and not the  *)
(* bids, with the price and the quantity of its message.                   *)
C13_LimitRestsOnOwnSide ==
    [][\A msg \in LimitMessages, side \in Sides :
        (/\ Deliver(msg, MaxLimitOrders)
         /\ intent' = Append(intent, [side |-> side, quantity |-> msg.quantity])
         /\ call'.outcome # "False"
         /\ ~Crosses(msg.price, side)) =>
            LET ref == OrderOf(call') IN
            /\ IF side = "buy"
               THEN ref \in Refs(bids') /\ ref \notin Refs(asks')
               ELSE ref \in Refs(asks') /\ ref \notin Refs(bids')
            /\ objs'[ref].price = msg.price
            /\ objs'[ref].quantity = msg.quantity]_vars

(* C14: for every order, a stop_limit order with limit_price >= stop_price *)
(* included, the add_order call process_message makes runs to its end: by  *)
(* the time the next message can be taken it has returned True or False,   *)
(* with its stop conversions and its matching pass done.                   *)
C14_SubmitCompletes ==
    Delivered => call.outcome \in {"True", "False"}

(* The engine when add_order, having inserted the order of a message,      *)
(* enters match_orders and the stop orders are scanned.                    *)
AtScan(msg) ==
    Insert(BuildOrder(Engine, msg, NextOrderId), <<"sub", NextOrderId>>)

(* The price the scan compares with: the best ask if there are asks, else  *)
(* the best bid, else none.                                                *)
ReferencePrice(S) ==
    IF S.asks # <<>> THEN Head(S.asks)[1]
    ELSE IF S.bids # <<>> THEN 0 - Head(S.bids)[1]
    ELSE None

(* C15: every stop order that is pending when an admitted order's scan is  *)
(* made and whose stop_price is at or below the reference price then is no *)
(* longer pending after the call, and exactly one limit order made from it *)
(* (id + 1000, price = its limit_price, its quantity, its user) exists.    *)
C15_StopTriggeredOnce ==
    [][\A msg \in Messages :
        (Deliver(msg, MaxOrders) /\ Admitted(msg)) =>
            LET S == AtScan(msg) IN
            \A i \in DOMAIN S.stop_limit_orders :
                LET stop == S.objs[S.stop_limit_orders[i]] IN
                (/\ ReferencePrice(S) # None
                 /\ stop.stop_price # None
                 /\ stop.stop_price <= ReferencePrice(S)) =>
                    /\ \A j \in DOMAIN stop_limit_orders' :
                          stop_limit_orders'[j] # S.stop_limit_orders[i]
                    /\ Cardinality({r \in DOMAIN objs' :
                          /\ objs'[r].order_id = stop.order_id + 1000
                          /\ objs'[r].order_type = "limit"
                          /\ objs'[r].price = stop.limit_price
                          /\ objs'[r].user_id = stop.user_id}) = 1]_vars

(* C16: a stop_limit order that passes the position check while the book   *)
(* is empty, or with its stop_price above the reference price, is in the   *)
(* pending stop orders and on neither side of the book once the call is    *)
(* over, and the call changes neither side nor any position.               *)
C16_StopOrderHeld ==
    [][\A msg \in StopLimitMessages :
        (/\ Deliver(msg, MaxOrders)
         /\ Admitted(msg)
         /\ \/ ReferencePrice(Engine) = None
            \/ msg.stop_price > ReferencePrice(Engine)) =>
            /\ \E i \in DOMAIN stop_limit_orders' :
                  stop_limit_orders'[i] = OrderOf(call')
            /\ OrderOf(call') \notin Refs(bids') \cup Refs(asks')
            /\ BidSide' = BidSide
            /\ AskSide' = AskSide
            /\ positions' = positions]_vars

(* A stop_limit order has just been taken while the best ask was below its *)
(* stop_price, and it is pending.                                          *)
C16_Witness ==
    /\ Delivered
    /\ objs[OrderOf(call)].order_type = "stop_limit"
    /\ asks # <<>>
    /\ BestAsk < objs[OrderOf(call)].stop_price
    /\ \E i \in DOMAIN stop_limit_orders : stop_limit_orders[i] = OrderOf(call)

(* What the fills of one call took off the resting order m. *)
RECURSIVE TakenFrom(_, _)
TakenFrom(fills, m) ==
    IF fills = <<>> THEN 0
    ELSE (IF Head(fills).maker = m THEN Head(fills).maker_dec ELSE 0)
            + TakenFrom(Tail(fills), m)

(* C17: once the call for a market order that passed the position check   *)
(* is over, the order is on neither side of the book nor pending, and its  *)
(* quantity is 0 or both sides are empty; every order that rested before   *)
(* is on its side with its quantity less what the fills took, if that is   *)
(* positive, and off the book otherwise.                                   *)
C17_MarketNeverRests ==
    [][\A msg \in MarketMessages :
        (Deliver(msg, MaxOrders) /\ Admitted(msg)) =>
            LET ref == OrderOf(call') IN
            /\ ref \notin Refs(bids') \cup Refs(asks')
            /\ \A i \in DOMAIN stop_limit_orders' : stop_limit_orders'[i] # ref
            /\ objs'[ref].quantity = 0 \/ (bids' = <<>> /\ asks' = <<>>)
            /\ \A m \in Refs(bids) \cup Refs(asks) :
                  LET left == objs[m].quantity - TakenFrom(call'.fills, m) IN
                  IF left > 0
                  THEN /\ m \in Refs(bids) => m \in Refs(bids')
                       /\ m \in Refs(asks) => m \in Refs(asks')
                       /\ objs'[m].quantity = left
                  ELSE m \notin Refs(bids') \cup Refs(asks')]_vars

(* A market order has just been filled completely, using up one resting    *)
(* order and part of another, which is back on its side.                   *)
C17_Witness ==
    /\ Delivered
    /\ objs[OrderOf(call)].order_type = "market"
    /\ objs[OrderOf(call)].quantity = 0
    /\ \E i \in DOMAIN call.fills :
          call.fills[i].maker \notin Refs(bids) \cup Refs(asks)
    /\ \E i \in DOMAIN call.fills :
          /\ call.fills[i].maker \in Refs(bids) \cup Refs(asks)
          /\ objs[call.fills[i].maker].quantity > 0

(* C18: once an add_order call is over, every order on the bid side and on *)
(* the ask side has a quantity above 0.                                    *)
C18_NoZeroQuantityResting ==
    Delivered =>
        /\ \A i \in DOMAIN BidSide : BidSide[i].quantity > 0
        /\ \A i \in DOMAIN AskSide : AskSide[i].quantity > 0

(* A fill has just taken all of a resting order, which is off the book,    *)
(* while another order still rests.                                        *)
C18_Witness ==
    /\ Delivered
    /\ \E i \in DOMAIN call.fills :
          /\ call.fills[i].maker \notin Refs(bids) \cup Refs(asks)
          /\ call.fills[i].maker_dec > 0
    /\ Len(bids) + Len(asks) > 0

(* C19: no user's position is ever above the position limit, the start,    *)
(* where every position is within it, included.                            *)
C19_PositionsWithinLimit ==
    \A u \in Users : get_user_position(positions, u) <= position_limit

(* C20: a fill against a resting ask lowers the position of the ask's      *)
(* owner by the quantity filled and raises the market order's user's by    *)
(* it; a fill against a resting bid raises the position of the bid's owner *)
(* by the quantity filled and lowers the market order's user's by it.      *)
C20_FillDirection ==
    \A i \in DOMAIN call.fills :
        LET f == call.fills[i] IN
        /\ f.against = "asks" =>
              (f.maker_change = 0 - f.maker_dec /\ f.taker_change = f.maker_dec)
        /\ f.against = "bids" =>
              (f.maker_change = f.maker_dec /\ f.taker_change = 0 - f.maker_dec)

====
